---- MODULE Spec2Model ----
(***************************************************************************)
(* Model of the breadwinner worker: the work loop of BreadwinnerWorker     *)
(* (request a chunk, evaluate the operation pipeline on it, submit the     *)
(* result, wait, repeat), the operation pipeline of processChunk and the   *)
(* handle bookkeeping of the FHEModule singleton.                          *)
(*                                                                         *)
(* Scheduling follows the JavaScript event loop: a handler runs to its     *)
(* first await without interruption; the continuation of an await is a     *)
(* microtask; events (messages, timers, init, open, close) are only        *)
(* delivered when no microtask is pending.                                 *)
(***************************************************************************)
EXTENDS Integers, Sequences, FiniteSets, TLC

(* ---------------------------- bounds ----------------------------------- *)

\* assignment messages delivered to one worker over a run
MaxMsgs == 2
\* operations in a generated schema
MaxOps == 2
\* calls of init over a run
MaxInits == 2
\* calls a client makes on FHEModule over a run
MaxCalls == 4
\* workers BreadwinnerModule creates over a run
MaxWorkers == 4

(* ---------------------------- data model ------------------------------- *)

\* Keys of operandsAndResultsMap: a JavaScript Map keeps strings and numbers
\* apart (the number 0 is not the string "0").
StrKey(s) == [t |-> "str", s |-> s, n |-> 0]
NumKey(i) == [t |-> "num", s |-> "", n |-> i]

\* `d${field}`
ColKey(field) == StrKey("d" \o field)
\* `p${operationIndex}`
LitKey(operationIndex) == StrKey("p" \o ToString(operationIndex))

\* Handles of the capability layer: who allocated it, what it is.
Handle(t, kind, n) == [task |-> t, kind |-> kind, n |-> n]
NoHandle == Handle(0, "none", 0)

\* A value held in the map: the handle and the number it encrypts/encodes.
Value(h, kind, v) == [h |-> h, kind |-> kind, v |-> v]
Undefined == Value(NoHandle, "undefined", 0)

\* Operand of index.ts: hasPlaintext is `"plaintextValue" in operand`,
\* isRaw is `"isRaw" in operand`.
Operand(field, hasPlaintext, isRaw, plaintextValue) ==
    [field |-> field, hasPlaintext |-> hasPlaintext, isRaw |-> isRaw,
     plaintextValue |-> plaintextValue]

Col(name) == Operand(ColKey(name), FALSE, FALSE, 0)
Res(i) == Operand(NumKey(i), FALSE, FALSE, 0)
Lit(i, v) == Operand(LitKey(i), TRUE, FALSE, v)
Raw(v) == Operand(StrKey(""), TRUE, TRUE, v)

OperationDTO(type, operands) == [type |-> type, operands |-> operands]

\* OperationType: the four kinds the switch of processChunk knows; "DIVIDE"
\* stands for any other value a parsed schema may carry.
OperationType == {"ADD", "SUBTRACT", "MULTIPLY", "EXPONENTIATION"}
UnknownType == "DIVIDE"

SchemeType == {"BGV", "CKKS"}
\* schemeType missing from the parsed schema
NoScheme == "undefined"

\* JSONSchema as a string on the wire: parses is whether JSON.parse accepts it.
JSONSchema(parses, schemeType, operations) ==
    [parses |-> parses, schemeType |-> schemeType, operations |-> operations]

\* chunk.columnsData of the scenarios: columns a and b encrypting 5 and 3.
ColumnNames == <<"a", "b">>
ColumnPlain == [a |-> 5, b |-> 3]

\* PayloadToProcess with its chunk and the token of the PayloadMessage.
Payload(chunkId, token, jsonSchema, columnsParse, galoisKeys, relinKeys) ==
    [chunkId |-> chunkId, token |-> token, jsonSchema |-> jsonSchema,
     columnsParse |-> columnsParse, galoisKeys |-> galoisKeys,
     relinKeys |-> relinKeys]

(* ---------------------- generated schemas ------------------------------ *)

\* The operand pairs of an arithmetic operation at index i: two columns, a
\* column and the operation's literal, two literals, the previous result,
\* and the references that are absent when the operation runs: an unknown
\* column, the operation's own result, a later result.
OperandPairsAt(i) ==
    {<<Col("a"), Col("b")>>, <<Col("a"), Lit(i, 2)>>, <<Lit(i, 2), Lit(i, 3)>>,
     <<Col("a"), Col("z")>>, <<Res(i), Col("b")>>, <<Col("a"), Res(i + 1)>>}
    \cup (IF i > 0 THEN {<<Res(i - 1), Col("b")>>} ELSE {})

OperationsAt(i) ==
    {OperationDTO(ty, pair) :
        ty \in {"ADD", "SUBTRACT", "MULTIPLY"}, pair \in OperandPairsAt(i)}
    \cup {OperationDTO("EXPONENTIATION", <<x, Raw(2)>>) :
            x \in {Col("a"), Col("z")}}
    \cup {OperationDTO(UnknownType, <<Col("a"), Col("b")>>)}

RECURSIVE OperationLists(_)
OperationLists(n) ==
    IF n = 0 THEN {<<>>}
    ELSE LET shorter == OperationLists(n - 1)
         IN  shorter \cup
             {Append(ops, o) : ops \in {s \in shorter : Len(s) = n - 1},
                               o \in OperationsAt(n - 1)}

\* The well-formed-JSON schemas of at most MaxOps operations that the
\* pipeline specification evaluates.
GeneratedSchemas ==
    {JSONSchema(TRUE, "BGV", ops) : ops \in OperationLists(MaxOps)}

(* ---------------------------- FHEModule -------------------------------- *)

\* The fields of the FHEModule singleton (part_001 lines 20-30); seal is
\* whether this.seal is set, a handle field is NoHandle while undefined.
FHEModuleFields ==
    [seal |-> FALSE, schemeType |-> NoScheme, context |-> NoHandle,
     encoder |-> NoHandle, encryptor |-> NoHandle, decryptor |-> NoHandle,
     keyGenerator |-> NoHandle, publicKey |-> NoHandle,
     privateKey |-> NoHandle, galoisKeys |-> NoHandle, relinKeys |-> NoHandle]

\* getSealSchemeType: throws unless this.seal and this.schemeType are set.
getSealSchemeType(f) ==
    IF f.seal /\ f.schemeType # NoScheme
    THEN [err |-> "none", scheme |-> IF f.schemeType = "BGV" THEN "bfv" ELSE "ckks"]
    ELSE [err |-> "NotInitialized", scheme |-> "none"]

\* initFHEContext after `await SEAL()` has resolved, run for task t: the new
\* fields, the handles it allocated and the error it threw ("none" if none).
\* The encryption parameters are fixed, so parametersSet() has one outcome;
\* the EncryptionParameters object is not among the handles counted here.
initFHEContext(f, t, schemeType) ==
    LET f1 == [f EXCEPT !.seal = TRUE, !.schemeType = schemeType]
        st == getSealSchemeType(f1)
    IN  IF st.err # "none"
        THEN [fhe |-> f1, new |-> {}, err |-> st.err]
        ELSE [fhe |-> [f1 EXCEPT !.context = Handle(t, "Context", 0),
                                 !.encoder = Handle(t, "Encoder", 0),
                                 !.keyGenerator = Handle(t, "KeyGenerator", 0)],
              new |-> {Handle(t, "Context", 0), Handle(t, "Encoder", 0),
                       Handle(t, "KeyGenerator", 0)},
              err |-> "none"]

\* setPublicKey loading a secret key next to the public key, as setKeyPair
\* does.
setPublicKey_WithSecretKey(f, t) ==
    IF f.seal /\ f.context # NoHandle
    THEN [fhe |-> [f EXCEPT !.publicKey = Handle(t, "PublicKey", 0),
                            !.privateKey = Handle(t, "SecretKey", 0)],
          new |-> {Handle(t, "PublicKey", 0), Handle(t, "SecretKey", 0)},
          err |-> "none"]
    ELSE [fhe |-> f, new |-> {}, err |-> "NotInitialized"]

\* setPublicKey: a fresh PublicKey handle replaces this.publicKey.
setPublicKey(f, t) ==
    IF f.seal /\ f.context # NoHandle
    THEN [fhe |-> [f EXCEPT !.publicKey = Handle(t, "PublicKey", 0)],
          new |-> {Handle(t, "PublicKey", 0)}, err |-> "none"]
    ELSE [fhe |-> f, new |-> {}, err |-> "NotInitialized"]

\* encode: guarded by seal, context and schemeType, then by the encoder.
encode(f) ==
    IF f.seal /\ f.context # NoHandle /\ f.schemeType # NoScheme
    THEN (IF f.encoder # NoHandle THEN "none" ELSE "NotInitialized")
    ELSE "NotInitialized"

\* deallocate: delete() on every field that is set; no field is cleared.
deallocate(f) ==
    {f.context, f.encoder, f.encryptor, f.decryptor, f.keyGenerator,
     f.publicKey, f.privateKey, f.galoisKeys, f.relinKeys} \ {NoHandle}

\* initializeEncryptor: guarded by seal, context and publicKey; the encryptor
\* held is deleted and a fresh one replaces it.  r is the outcome so far.
initializeEncryptor(r, t) ==
    IF r.err # "none" THEN r
    ELSE IF r.fhe.seal /\ r.fhe.context # NoHandle /\ r.fhe.publicKey # NoHandle
    THEN [r EXCEPT !.deleted = @ \cup ({r.fhe.encryptor} \ {NoHandle}),
                   !.new = @ \cup {Handle(t, "Encryptor", 0)},
                   !.fhe.encryptor = Handle(t, "Encryptor", 0)]
    ELSE [r EXCEPT !.err = "NotInitialized"]

\* initializeDecryptor: the same with privateKey and the decryptor.
initializeDecryptor(r, t) ==
    IF r.err # "none" THEN r
    ELSE IF r.fhe.seal /\ r.fhe.context # NoHandle /\ r.fhe.privateKey # NoHandle
    THEN [r EXCEPT !.deleted = @ \cup ({r.fhe.decryptor} \ {NoHandle}),
                   !.new = @ \cup {Handle(t, "Decryptor", 0)},
                   !.fhe.decryptor = Handle(t, "Decryptor", 0)]
    ELSE [r EXCEPT !.err = "NotInitialized"]

\* The outcome of a method that threw at its guard.
NotInitialized(f) ==
    [fhe |-> f, new |-> {}, deleted |-> {}, err |-> "NotInitialized", uses |-> {}]

\* generateKeys: guarded by seal, context and keyGenerator; sets privateKey
\* and publicKey, then the encryptor and the decryptor.  uses is the handles
\* the method works on.
generateKeys(f, t) ==
    IF f.seal /\ f.context # NoHandle /\ f.keyGenerator # NoHandle
    THEN initializeDecryptor(initializeEncryptor(
             [fhe |-> [f EXCEPT !.privateKey = Handle(t, "SecretKey", 0),
                                !.publicKey = Handle(t, "PublicKey", 0)],
              new |-> {Handle(t, "SecretKey", 0), Handle(t, "PublicKey", 0)},
              deleted |-> {}, err |-> "none",
              uses |-> {f.context, f.keyGenerator}], t), t)
    ELSE NotInitialized(f)

generateGaloisKeys(f, t) ==
    IF f.seal /\ f.context # NoHandle /\ f.keyGenerator # NoHandle
    THEN [fhe |-> [f EXCEPT !.galoisKeys = Handle(t, "GaloisKeys", 0)],
          new |-> {Handle(t, "GaloisKeys", 0)}, deleted |-> {}, err |-> "none",
          uses |-> {f.keyGenerator}]
    ELSE NotInitialized(f)

generateRelinKeys(f, t) ==
    IF f.seal /\ f.context # NoHandle /\ f.keyGenerator # NoHandle
    THEN [fhe |-> [f EXCEPT !.relinKeys = Handle(t, "RelinKeys", 0)],
          new |-> {Handle(t, "RelinKeys", 0)}, deleted |-> {}, err |-> "none",
          uses |-> {f.keyGenerator}]
    ELSE NotInitialized(f)

\* setKeyPair: guarded by seal and context; loads both keys, then the
\* encryptor and the decryptor.
setKeyPair(f, t) ==
    IF f.seal /\ f.context # NoHandle
    THEN initializeDecryptor(initializeEncryptor(
             [fhe |-> [f EXCEPT !.publicKey = Handle(t, "PublicKey", 0),
                                !.privateKey = Handle(t, "SecretKey", 0)],
              new |-> {Handle(t, "PublicKey", 0), Handle(t, "SecretKey", 0)},
              deleted |-> {}, err |-> "none", uses |-> {f.context}], t), t)
    ELSE NotInitialized(f)

\* encryptData: guarded by seal, context, encoder and encryptor; encodes,
\* encrypts, saves the ciphertext and deletes it.
encryptData(f, t) ==
    IF f.seal /\ f.context # NoHandle /\ f.encoder # NoHandle
       /\ f.encryptor # NoHandle
    THEN IF encode(f) # "none" THEN NotInitialized(f)
         ELSE [fhe |-> f,
               new |-> {Handle(t, "PlainText", 0), Handle(t, "CipherText", 0)},
               deleted |-> {Handle(t, "CipherText", 0)}, err |-> "none",
               uses |-> {f.encoder, f.encryptor}]
    ELSE NotInitialized(f)

\* What a call of a method by a client comes to: initFHEContext (with the
\* await of SEAL() taken as one step), the guarded methods, deallocate.
Method(f, t, method, schemeType) ==
    CASE method = "initFHEContext" ->
            LET r == initFHEContext(f, t, schemeType)
            IN  [fhe |-> r.fhe, new |-> r.new, deleted |-> {}, err |-> r.err,
                 uses |-> {}]
      [] method = "setPublicKey" ->
            LET r == setPublicKey(f, t)
            IN  [fhe |-> r.fhe, new |-> r.new, deleted |-> {}, err |-> r.err,
                 uses |-> IF r.err = "none" THEN {f.context} ELSE {}]
      [] method = "encode" ->
            IF encode(f) = "none"
            THEN [fhe |-> f, new |-> {Handle(t, "PlainText", 0)}, deleted |-> {},
                  err |-> "none", uses |-> {f.encoder}]
            ELSE NotInitialized(f)
      [] method = "generateKeys" -> generateKeys(f, t)
      [] method = "generateGaloisKeys" -> generateGaloisKeys(f, t)
      [] method = "generateRelinKeys" -> generateRelinKeys(f, t)
      [] method = "setKeyPair" -> setKeyPair(f, t)
      [] method = "encryptData" -> encryptData(f, t)
      [] method = "deallocate" ->
            [fhe |-> f, new |-> {}, deleted |-> deallocate(f), err |-> "none",
             uses |-> {}]

\* The methods that open with the guard on seal and context.
GuardedMethods ==
    {"setPublicKey", "encode", "generateKeys", "generateGaloisKeys",
     "generateRelinKeys", "setKeyPair", "encryptData"}

(* ------------------------ OperationsCalculator ------------------------- *)

RECURSIVE Sum(_, _)
Sum(operands, k) ==
    IF k = 0 THEN 0 ELSE Sum(operands, k - 1) + operands[k].v

RECURSIVE Product(_, _)
Product(operands, k) ==
    IF k = 0 THEN 1 ELSE Product(operands, k - 1) * operands[k].v

RECURSIVE Power(_, _)
Power(b, e) == IF e <= 0 THEN 1 ELSE b * Power(b, e - 1)

\* left-to-right pairwise sum
add(operands) == Sum(operands, Len(operands))
\* operand[0] - operand[1]
subtract(operands) == operands[1].v - operands[2].v
\* left-to-right pairwise product
multiply(operands) == Product(operands, Len(operands))
\* the base raised to the public exponent
exponentiate(base, exponent) == Power(base.v, exponent)

\* The error a calculator call ends with, "none" when it returns: an
\* undefined operand cannot be evaluated, a ciphertext x ciphertext product
\* and an exponentiation need loaded RelinKeys, the exponent is not negative.
CalculatorError(type, operands, exponent, relinLoaded) ==
    IF \E k \in 1..Len(operands) : operands[k] = Undefined THEN "TypeError"
    ELSE IF type = "MULTIPLY"
            /\ Cardinality({k \in 1..Len(operands) :
                              operands[k].kind = "CipherText"}) >= 2
            /\ ~relinLoaded THEN "MissingKeyError"
    ELSE IF type = "EXPONENTIATION" /\ exponent < 0 THEN "InvalidExponentError"
    ELSE IF type = "EXPONENTIATION" /\ ~relinLoaded THEN "MissingKeyError"
    ELSE "none"

CalculatorValue(type, operands, exponent) ==
    CASE type = "ADD" -> add(operands)
      [] type = "SUBTRACT" -> subtract(operands)
      [] type = "MULTIPLY" -> multiply(operands)
      [] type = "EXPONENTIATION" -> exponentiate(operands[1], exponent)

\* save(): the serialized form of a value; it is a different string for
\* every ciphertext, so it names the ciphertext it was taken from.
Save(value) == [base64of |-> value.h, v |-> value.v]
NoResult == [base64of |-> NoHandle, v |-> 0]

(* --------------------------- processChunk ------------------------------ *)

\* operandsAndResultsMap.set / .get; get of an absent key is undefined.
Put(map, key, value) == (key :> value) @@ map
Get(map, key) == IF key \in DOMAIN map THEN map[key] ELSE Undefined
EmptyMap == [key \in {} |-> Undefined]
MapValues(map) == {map[key].h : key \in DOMAIN map}

\* Handles of one kind that task t has allocated so far.
Count(new, kind) == Cardinality({h \in new : h.kind = kind})

\* Step 3, columns: Object.entries(columnsData).forEach - a CipherText per
\* column, stored under `d${field}`.
RECURSIVE SeedColumns(_, _, _)
SeedColumns(st, t, k) ==
    IF k > Len(ColumnNames) THEN st
    ELSE LET name == ColumnNames[k]
             h == Handle(t, "CipherText", k)
         IN  SeedColumns([st EXCEPT
                 !.new = @ \cup {h},
                 !.map = Put(@, ColKey(name),
                             Value(h, "CipherText", ColumnPlain[name]))],
               t, k + 1)

\* Step 3, literals of one operation: every operand with a plaintextValue
\* and no isRaw is encoded and stored under `p${operationIndex}`.
RECURSIVE SeedOperands(_, _, _, _, _)
SeedOperands(st, t, operationIndex, operands, j) ==
    IF j > Len(operands) \/ st.err # "none" THEN st
    ELSE IF operands[j].hasPlaintext /\ ~operands[j].isRaw
    THEN LET e == encode(st.fhe)
             h == Handle(t, "PlainText", Count(st.new, "PlainText"))
         IN  IF e # "none"
             THEN [st EXCEPT !.err = e, !.stage = "seeding"]
             ELSE SeedOperands([st EXCEPT
                     !.new = @ \cup {h},
                     !.map = Put(@, LitKey(operationIndex),
                                 Value(h, "PlainText", operands[j].plaintextValue))],
                   t, operationIndex, operands, j + 1)
    ELSE SeedOperands(st, t, operationIndex, operands, j + 1)

RECURSIVE SeedLiterals(_, _, _, _)
SeedLiterals(st, t, operations, i) ==
    IF i > Len(operations) \/ st.err # "none" THEN st
    ELSE SeedLiterals(SeedOperands(st, t, i - 1, operations[i].operands, 1),
                      t, operations, i + 1)

\* ResolveOperands handing the operands over in reverse order.
ResolveOperands_Reversed(map, operands) ==
    [k \in 1..Len(operands) |-> Get(map, operands[Len(operands) + 1 - k].field)]

\* operation.operands.map(operand => operandsAndResultsMap.get(operand.field)!)
ResolveOperands(map, operands) ==
    [k \in 1..Len(operands) |-> Get(map, operands[k].field)]

\* EvaluateOperation handing the calculator its RelinKeys as loaded whether
\* or not the payload supplied them.
EvaluateOperation_KeysAssumed(st, t, operation, index, relinLoaded) ==
    IF operation.type \notin OperationType THEN st
    ELSE LET data == IF operation.type = "EXPONENTIATION"
                     THEN <<Get(st.map, operation.operands[1].field)>>
                     ELSE ResolveOperands(st.map, operation.operands)
             exponent == IF operation.type = "EXPONENTIATION"
                         THEN operation.operands[2].plaintextValue ELSE 0
             call == [index |-> index, type |-> operation.type, data |-> data]
             e == CalculatorError(operation.type, data, exponent, TRUE)
             h == Handle(t, "Result", index)
         IN  IF e # "none"
             THEN [st EXCEPT !.dispatched = Append(@, call),
                             !.err = e, !.stage = "operation"]
             ELSE [st EXCEPT
                     !.dispatched = Append(@, call),
                     !.new = @ \cup {h},
                     !.map = Put(@, NumKey(index),
                                 Value(h, "CipherText",
                                       CalculatorValue(operation.type, data, exponent)))]

\* One iteration of the loop of step 5 for operations[i] (index i - 1): the
\* switch resolves the operands, calls the calculator and stores the result
\* under the index; a type without a case falls through the switch.
EvaluateOperation(st, t, operation, index, relinLoaded) ==
    IF operation.type \notin OperationType THEN st
    ELSE LET data == IF operation.type = "EXPONENTIATION"
                     THEN <<Get(st.map, operation.operands[1].field)>>
                     ELSE ResolveOperands(st.map, operation.operands)
             exponent == IF operation.type = "EXPONENTIATION"
                         THEN operation.operands[2].plaintextValue ELSE 0
             call == [index |-> index, type |-> operation.type, data |-> data]
             e == CalculatorError(operation.type, data, exponent, relinLoaded)
             h == Handle(t, "Result", index)
         IN  IF e # "none"
             THEN [st EXCEPT !.dispatched = Append(@, call),
                             !.err = e, !.stage = "operation"]
             ELSE [st EXCEPT
                     !.dispatched = Append(@, call),
                     !.new = @ \cup {h},
                     !.map = Put(@, NumKey(index),
                                 Value(h, "CipherText",
                                       CalculatorValue(operation.type, data, exponent)))]

RECURSIVE EvaluateOperations(_, _, _, _, _)
EvaluateOperations(st, t, operations, i, relinLoaded) ==
    IF i > Len(operations) \/ st.err # "none" THEN st
    ELSE EvaluateOperations(
             EvaluateOperation(st, t, operations[i], i - 1, relinLoaded),
             t, operations, i + 1, relinLoaded)

\* ExtractResult taking the first operation's result instead of the last.
ExtractResult_First(st, operations) ==
    LET first == Get(st.map, NumKey(0))
    IN  IF first = Undefined
        THEN [st EXCEPT !.err = "TypeError", !.stage = "extraction"]
        ELSE [st EXCEPT !.result = Save(first)]

\* Step 6: operandsAndResultsMap.get(operations.length - 1)!.save()
ExtractResult(st, operations) ==
    LET last == Get(st.map, NumKey(Len(operations) - 1))
    IN  IF last = Undefined
        THEN [st EXCEPT !.err = "TypeError", !.stage = "extraction"]
        ELSE [st EXCEPT !.result = Save(last)]

\* Step 7: delete() on every value of the map, then FHEModule.deallocate().
Cleanup(st) ==
    [st EXCEPT !.deleted = MapValues(st.map) \cup deallocate(st.fhe)]

\* processChunk from the continuation of `await initFHEContext` to its end
\* (lines 56-186), run by task t on the FHEModule fields f.  stale is whether
\* FHEModule.context has been deleted already; using a deleted handle either
\* throws at its first use (staleThrows) or goes unnoticed.
processChunk(f, t, payload, stale, staleThrows) ==
    LET operations == payload.jsonSchema.operations
        pk == setPublicKey(f, t)
        st0 == [fhe |-> pk.fhe, new |-> pk.new, map |-> EmptyMap,
                err |-> pk.err, stage |-> "setPublicKey", dispatched |-> <<>>,
                result |-> NoResult, deleted |-> {}]
        st1 == IF st0.err = "none" /\ stale /\ staleThrows
               THEN [st0 EXCEPT !.err = "DeletedHandle"] ELSE st0
        st2 == IF st1.err # "none" THEN st1
               ELSE IF ~payload.columnsParse
               THEN [st1 EXCEPT !.err = "SyntaxError", !.stage = "seeding"]
               ELSE SeedColumns(st1, t, 1)
        st3 == SeedLiterals(st2, t, operations, 1)
        \* step 4: the GaloisKeys and RelinKeys handles, loaded when supplied
        st4 == IF st3.err # "none" THEN st3
               ELSE [st3 EXCEPT !.new = @ \cup {Handle(t, "GaloisKeys", 0),
                                                Handle(t, "RelinKeys", 0)}]
        \* step 5: the Evaluator, then the loop
        st5 == IF st4.err # "none" THEN st4
               ELSE EvaluateOperations(
                        [st4 EXCEPT !.new = @ \cup {Handle(t, "Evaluator", 0)}],
                        t, operations, 1, payload.relinKeys)
        st6 == IF st5.err # "none" THEN st5 ELSE ExtractResult(st5, operations)
    IN  IF st6.err # "none" THEN st6 ELSE Cleanup(st6)

(* ------------------------------ state ---------------------------------- *)

VARIABLES
    websocketConnection,  \* this.websocketConnection: 0 while undefined
    connState,            \* readyState of every WebSocket created so far
    tasks,                \* the processPayload invocations, in arrival order
    timers,               \* tasks whose reward timer is armed
    FHEModule,            \* the fields of the FHEModule singleton
    allocated,            \* handles created so far
    released,             \* handles delete() has been called on
    wire,                 \* what crossed the connection, in order
    worker,               \* BreadwinnerModule.worker: 0 while undefined
    workers,              \* every Worker created so far
    clientCalls           \* the calls a client made on FHEModule, in order

vars == <<websocketConnection, connState, tasks, timers, FHEModule,
          allocated, released, wire, worker, workers, clientCalls>>

\* What the page and a direct client of FHEModule hold; no step of the
\* worker touches it.
hostVars == <<worker, workers, clientCalls>>

Tasks == 1..Len(tasks)

NoPayload == Payload(0, 0, JSONSchema(FALSE, NoScheme, <<>>), FALSE, FALSE, FALSE)

\* A processPayload invocation: where it stands, the message it handles and
\* what its processChunk did.
Task(pc, conn, payload, err, stage) ==
    [pc |-> pc, conn |-> conn, payload |-> payload, err |-> err,
     stage |-> stage, result |-> NoResult, map |-> EmptyMap,
     dispatched |-> <<>>, new |-> {}, context |-> NoHandle,
     contextLive |-> TRUE, armed |-> pc = "done"]

\* processChunk of task t has been called and has not settled.
InProcessChunk(t) == tasks[t].pc \in {"awaitSeal", "awaitInit"}
\* processChunk of task t has settled (returned or thrown).
Settled(t) == tasks[t].pc \in {"awaitChunk", "done", "rejected"}
                /\ tasks[t].stage # "message"
\* Task t holds a chunk: it is processing it or has yet to submit its result.
InFlight(t) == tasks[t].pc \in {"awaitSeal", "awaitInit", "awaitChunk"}
\* A continuation of an await is queued: it runs before any further event.
MicrotaskPending == \E t \in Tasks : tasks[t].pc \in {"awaitInit", "awaitChunk"}

Event(type, conn, t, chunkId, result, token) ==
    [type |-> type, conn |-> conn, task |-> t, chunkId |-> chunkId,
     result |-> result, token |-> token,
     busy |-> {u \in Tasks : InFlight(u)}]

\* WebSocket.send: delivered on an open socket, an InvalidStateError while
\* the socket is connecting, dropped once it is closing or closed.
SendOutcome(conn) ==
    IF conn = 0 THEN "skipped"
    ELSE CASE connState[conn] = "open" -> "sent"
           [] connState[conn] = "connecting" -> "InvalidStateError"
           [] OTHER -> "dropped"

\* requestPayload: this.websocketConnection?.send({type: REQUEST_CHUNK})
requestPayload(log) ==
    IF SendOutcome(websocketConnection) = "sent"
    THEN Append(log, Event("REQUEST_CHUNK", websocketConnection, 0, 0, NoResult, 0))
    ELSE log

(* ---------------------------- messages --------------------------------- *)

ScenarioA == <<OperationDTO("ADD", <<Col("a"), Col("b")>>)>>
ScenarioB == <<OperationDTO("MULTIPLY", <<Col("a"), Lit(0, 2)>>),
               OperationDTO("SUBTRACT", <<Res(0), Col("b")>>)>>

\* What the server sends in the work-loop specification: an empty message,
\* an assignment of each scheme that evaluates, and one whose second
\* operation fails after the first has stored its result.  The n-th message
\* carries chunk id and token n.
WireSchemas ==
    {JSONSchema(TRUE, "BGV", ScenarioA),
     JSONSchema(TRUE, "CKKS", ScenarioB),
     JSONSchema(TRUE, "BGV", <<OperationDTO("ADD", <<Col("a"), Col("b")>>),
                               OperationDTO("ADD", <<Res(0), Col("z")>>)>>)}

Assignment(payload) == [data |-> "assignment", payload |-> payload]

WireMessages(n) ==
    {[data |-> "empty", payload |-> NoPayload]}
    \cup {Assignment(Payload(n, n, js, TRUE, TRUE, TRUE)) : js \in WireSchemas}

\* What the one message of the pipeline specification may be: event.data
\* that is not JSON, a schema that is not JSON, a schema without schemeType,
\* columnsData that is not JSON, and every generated schema with and without
\* relinKeys.
PipelineMessages ==
    {[data |-> "malformed", payload |-> NoPayload],
     Assignment(Payload(1, 1, JSONSchema(FALSE, NoScheme, <<>>), TRUE, TRUE, TRUE)),
     Assignment(Payload(1, 1, JSONSchema(TRUE, NoScheme, ScenarioA), TRUE, TRUE, TRUE)),
     Assignment(Payload(1, 1, JSONSchema(TRUE, "BGV", ScenarioA), FALSE, TRUE, TRUE)),
     Assignment(Payload(1, 1, JSONSchema(TRUE, "CKKS", ScenarioB), TRUE, FALSE, TRUE))}
    \cup {Assignment(Payload(1, 1, js, TRUE, TRUE, relinKeys)) :
            js \in GeneratedSchemas, relinKeys \in BOOLEAN}

(* ------------------------------ actions -------------------------------- *)

Init ==
    /\ websocketConnection = 0
    /\ connState = <<>>
    /\ tasks = <<>>
    /\ timers = {}
    /\ FHEModule = FHEModuleFields
    /\ allocated = {}
    /\ released = {}
    /\ wire = <<>>
    /\ worker = 0
    /\ workers = <<>>
    /\ clientCalls = <<>>

\* init going straight to initializeWebsocketConnection, the connection held
\* left as it is.
init_NoClose ==
    /\ ~MicrotaskPending
    /\ Len(connState) < MaxInits
    /\ connState' = Append(connState, "connecting")
    /\ websocketConnection' = Len(connState) + 1
    /\ UNCHANGED <<tasks, timers, FHEModule, allocated, released, wire>>
    /\ UNCHANGED hostVars

\* init(apiKey): close the connection held, then initializeWebsocketConnection.
init ==
    /\ ~MicrotaskPending
    /\ Len(connState) < MaxInits
    /\ connState' = Append(
          IF websocketConnection # 0
          THEN [connState EXCEPT ![websocketConnection] = "closed"]
          ELSE connState, "connecting")
    /\ websocketConnection' = Len(connState) + 1
    /\ UNCHANGED <<tasks, timers, FHEModule, allocated, released, wire>>
    /\ UNCHANGED hostVars

\* onopen of socket c: onWebsocketOpen calls requestPayload.
onWebsocketOpen(c) ==
    /\ ~MicrotaskPending
    /\ connState[c] = "connecting"
    /\ connState' = [connState EXCEPT ![c] = "open"]
    /\ wire' = (IF websocketConnection = c
                THEN Append(wire, Event("REQUEST_CHUNK", c, 0, 0, NoResult, 0))
                ELSE wire)
    /\ UNCHANGED <<websocketConnection, tasks, timers, FHEModule, allocated, released>>
    /\ UNCHANGED hostVars

\* onerror / onclose of socket c: the handlers only log.
onWebsocketClosed(c) ==
    /\ ~MicrotaskPending
    /\ connState[c] \in {"connecting", "open"}
    /\ connState' = [connState EXCEPT ![c] = "closed"]
    /\ UNCHANGED <<websocketConnection, tasks, timers, FHEModule, allocated, released, wire>>
    /\ UNCHANGED hostVars

\* onmessage of socket c: processPayload up to its first await.  An empty
\* event.data arms the timer at once; JSON.parse of event.data or of
\* payload.jsonSchema may throw; otherwise processChunk has called
\* initFHEContext, which waits for SEAL().
processPayload(c, m) ==
    LET t == Len(tasks) + 1
        task == CASE m.data = "empty" -> Task("done", c, m.payload, "none", "message")
                  [] m.data = "malformed" ->
                        Task("rejected", c, m.payload, "SyntaxError", "message")
                  [] ~m.payload.jsonSchema.parses ->
                        Task("awaitChunk", c, m.payload, "SyntaxError", "parse")
                  [] OTHER -> Task("awaitSeal", c, m.payload, "none", "init")
    IN  /\ ~MicrotaskPending
        /\ connState[c] = "open"
        /\ Len(tasks) < MaxMsgs
        /\ tasks' = Append(tasks, task)
        /\ timers' = (IF m.data = "empty" THEN timers \cup {t} ELSE timers)
        /\ wire' = Append(wire, Event("MESSAGE", c, t, m.payload.chunkId,
                                      NoResult, m.payload.token))
        /\ UNCHANGED <<websocketConnection, connState, FHEModule, allocated, released>>
        /\ UNCHANGED hostVars

\* The SEAL() promise of task t resolves: the rest of initFHEContext runs.
\* When the promise settles is up to the library, so this step is not
\* ordered against the continuations of other tasks.
SealResolved(t) ==
    LET r == initFHEContext(FHEModule, t, tasks[t].payload.jsonSchema.schemeType)
    IN  /\ tasks[t].pc = "awaitSeal"
        /\ FHEModule' = r.fhe
        /\ allocated' = allocated \cup r.new
        /\ tasks' = [tasks EXCEPT ![t].pc = "awaitInit", ![t].err = r.err,
                                  ![t].new = r.new]
        /\ UNCHANGED <<websocketConnection, connState, timers, released, wire>>
        /\ UNCHANGED hostVars

\* The continuation of `await FHEModule.initFHEContext(...)`: a rejection is
\* thrown on; otherwise processChunk runs to its end.
processChunkResume(t, staleThrows) ==
    LET stale == FHEModule.context \in released
        r == processChunk(FHEModule, t, tasks[t].payload, stale, staleThrows)
    IN  /\ tasks[t].pc = "awaitInit"
        /\ IF tasks[t].err # "none"
           THEN /\ tasks' = [tasks EXCEPT ![t].pc = "awaitChunk"]
                /\ UNCHANGED <<FHEModule, allocated, released>>
           ELSE /\ tasks' = [tasks EXCEPT
                        ![t].pc = "awaitChunk", ![t].err = r.err,
                        ![t].stage = IF r.err = "none" THEN "returned" ELSE r.stage,
                        ![t].result = r.result, ![t].map = r.map,
                        ![t].dispatched = r.dispatched,
                        ![t].new = @ \cup r.new,
                        ![t].context = FHEModule.context,
                        ![t].contextLive = ~stale]
                /\ FHEModule' = r.fhe
                /\ allocated' = allocated \cup r.new
                /\ released' = released \cup r.deleted
        /\ UNCHANGED <<websocketConnection, connState, timers, wire>>
        /\ UNCHANGED hostVars

\* processPayloadResume reading chunk id and token from the message that
\* arrived last, as if the payload were kept in a field of the worker.
processPayloadResume_LastPayload(t) ==
    LET p == tasks[Len(tasks)].payload
        out == SendOutcome(websocketConnection)
    IN  /\ tasks[t].pc = "awaitChunk"
        /\ IF tasks[t].err # "none"
           THEN /\ tasks' = [tasks EXCEPT ![t].pc = "rejected"]
                /\ UNCHANGED <<timers, wire>>
           ELSE /\ wire' = (IF out = "sent"
                            THEN Append(wire, Event("SEND_CHUNK_PROCESSING_RESULT",
                                     websocketConnection, t, p.chunkId,
                                     tasks[t].result, p.token))
                            ELSE wire)
                /\ IF out = "InvalidStateError"
                   THEN /\ tasks' = [tasks EXCEPT ![t].pc = "rejected",
                                                  ![t].err = out, ![t].stage = "send"]
                        /\ UNCHANGED timers
                   ELSE /\ tasks' = [tasks EXCEPT ![t].pc = "done", ![t].armed = TRUE]
                        /\ timers' = timers \cup {t}
        /\ UNCHANGED <<websocketConnection, connState, FHEModule, allocated, released>>
        /\ UNCHANGED hostVars

\* processPayloadResume with the rejection caught and the send carried out
\* all the same.
processPayloadResume_Caught(t) ==
    LET p == tasks[t].payload
    IN  /\ tasks[t].pc = "awaitChunk"
        /\ wire' = (IF SendOutcome(websocketConnection) = "sent"
                    THEN Append(wire, Event("SEND_CHUNK_PROCESSING_RESULT",
                             websocketConnection, t, p.chunkId,
                             tasks[t].result, p.token))
                    ELSE wire)
        /\ tasks' = [tasks EXCEPT ![t].pc = "done", ![t].armed = TRUE]
        /\ timers' = timers \cup {t}
        /\ UNCHANGED <<websocketConnection, connState, FHEModule, allocated, released>>
        /\ UNCHANGED hostVars

\* The continuation of `await this.processChunk(...)`: a rejection ends
\* processPayload; otherwise the result is sent and the timer is armed.  A
\* send on a connecting socket throws before the timer is armed.
processPayloadResume(t) ==
    LET p == tasks[t].payload
        out == SendOutcome(websocketConnection)
    IN  /\ tasks[t].pc = "awaitChunk"
        /\ IF tasks[t].err # "none"
           THEN /\ tasks' = [tasks EXCEPT ![t].pc = "rejected"]
                /\ UNCHANGED <<timers, wire>>
           ELSE /\ wire' = (IF out = "sent"
                            THEN Append(wire, Event("SEND_CHUNK_PROCESSING_RESULT",
                                     websocketConnection, t, p.chunkId,
                                     tasks[t].result, p.token))
                            ELSE wire)
                /\ IF out = "InvalidStateError"
                   THEN /\ tasks' = [tasks EXCEPT ![t].pc = "rejected",
                                                  ![t].err = out, ![t].stage = "send"]
                        /\ UNCHANGED timers
                   ELSE /\ tasks' = [tasks EXCEPT ![t].pc = "done", ![t].armed = TRUE]
                        /\ timers' = timers \cup {t}
        /\ UNCHANGED <<websocketConnection, connState, FHEModule, allocated, released>>
        /\ UNCHANGED hostVars

\* RewardTimeout opening a new connection when it finds the one held closed.
RewardTimeout_Reconnects(t) ==
    /\ ~MicrotaskPending
    /\ t \in timers
    /\ timers' = timers \ {t}
    /\ IF SendOutcome(websocketConnection) = "dropped" /\ Len(connState) < MaxInits
       THEN /\ connState' = Append(connState, "connecting")
            /\ websocketConnection' = Len(connState) + 1
            /\ UNCHANGED wire
       ELSE /\ wire' = requestPayload(wire)
            /\ UNCHANGED <<websocketConnection, connState>>
    /\ UNCHANGED <<tasks, FHEModule, allocated, released>>
    /\ UNCHANGED hostVars

\* The reward timer armed by task t fires: requestPayload.
RewardTimeout(t) ==
    /\ ~MicrotaskPending
    /\ t \in timers
    /\ timers' = timers \ {t}
    /\ wire' = requestPayload(wire)
    /\ UNCHANGED <<websocketConnection, connState, tasks, FHEModule, allocated, released>>
    /\ UNCHANGED hostVars

Next ==
    \/ init
    \/ \E c \in DOMAIN connState : onWebsocketOpen(c)
    \/ \E c \in DOMAIN connState : onWebsocketClosed(c)
    \/ \E c \in DOMAIN connState : \E m \in WireMessages(Len(tasks) + 1) : processPayload(c, m)
    \/ \E t \in Tasks : SealResolved(t)
    \/ \E t \in Tasks : \E staleThrows \in BOOLEAN : processChunkResume(t, staleThrows)
    \/ \E t \in Tasks : processPayloadResume(t)
    \/ \E t \in Tasks : RewardTimeout(t)

Spec == Init /\ [][Next]_vars

(* The pipeline specification: one worker whose connection has opened and
   whose first request is out handles one message, drawn from
   PipelineMessages, to the end of its work cycle. *)
PipelineInit ==
    /\ websocketConnection = 1
    /\ connState = <<"open">>
    /\ tasks = <<>>
    /\ timers = {}
    /\ FHEModule = FHEModuleFields
    /\ allocated = {}
    /\ released = {}
    /\ wire = <<[type |-> "REQUEST_CHUNK", conn |-> 1, task |-> 0, chunkId |-> 0,
                 result |-> NoResult, token |-> 0, busy |-> {}]>>
    /\ worker = 0
    /\ workers = <<>>
    /\ clientCalls = <<>>

PipelineNext ==
    \/ tasks = <<>> /\ \E m \in PipelineMessages : processPayload(1, m)
    \/ \E t \in Tasks : SealResolved(t)
    \/ \E t \in Tasks : \E staleThrows \in BOOLEAN : processChunkResume(t, staleThrows)
    \/ \E t \in Tasks : processPayloadResume(t)
    \/ \E t \in Tasks : RewardTimeout(t)

PipelineSpec == PipelineInit /\ [][PipelineNext]_vars

(* The client specification: a client of the FHEModule singleton calls its
   methods in any order.  A method that works on a handle delete() was
   called on either throws in the binding (staleThrows) or goes unnoticed. *)
ClientInit == Init

\* One call of a method: the fields, the handles created and deleted, and
\* the record of the call.
ClientCall(method, schemeType, staleThrows) ==
    LET t == Len(clientCalls) + 1
        r == Method(FHEModule, t, method, schemeType)
        stale == r.uses \cap released # {}
        thrown == r.err = "none" /\ stale /\ staleThrows
    IN  /\ Len(clientCalls) < MaxCalls
        /\ FHEModule' = (IF thrown THEN FHEModule ELSE r.fhe)
        /\ allocated' = (IF thrown THEN allocated ELSE allocated \cup r.new)
        /\ released' = (IF thrown THEN released ELSE released \cup r.deleted)
        /\ clientCalls' = Append(clientCalls,
              [method |-> method,
               err |-> IF thrown THEN "DeletedHandle" ELSE r.err,
               stale |-> stale,
               twice |-> r.deleted \cap released])
        /\ UNCHANGED <<websocketConnection, connState, tasks, timers, wire,
                       worker, workers>>

ClientNext ==
    \/ \E schemeType \in SchemeType : ClientCall("initFHEContext", schemeType, FALSE)
    \/ \E method \in GuardedMethods : \E staleThrows \in BOOLEAN :
          ClientCall(method, NoScheme, staleThrows)
    \/ ClientCall("deallocate", NoScheme, FALSE)

ClientSpec == ClientInit /\ [][ClientNext]_vars

(* The page specification: the page calls init and disconnect of the
   BreadwinnerModule singleton in any order; a worker that is alive takes
   the message posted to it and calls its own init with the api key. *)
ApiKeys == {"key1", "key2"}
NoKey == "none"

\* new Worker(...): alive, nothing posted to it, its apiKey not set.
NewWorker == [alive |-> TRUE, posted |-> <<>>, apiKey |-> NoKey]

\* worker.terminate() on the worker the field names, if any.
Terminate(ws) ==
    IF worker # 0 THEN [ws EXCEPT ![worker].alive = FALSE] ELSE ws

\* BreadwinnerModule.init without the terminate() of the worker held.
BreadwinnerModule_init_NoTerminate(apiKey) ==
    /\ Len(workers) < MaxWorkers
    /\ workers' = Append(workers, [NewWorker EXCEPT !.posted = <<apiKey>>])
    /\ worker' = Len(workers) + 1
    /\ UNCHANGED <<websocketConnection, connState, tasks, timers, FHEModule,
                   allocated, released, wire, clientCalls>>

\* BreadwinnerModule.init(apiKey): terminate the worker held, create a
\* Worker, post [apiKey] to it.
BreadwinnerModule_init(apiKey) ==
    /\ Len(workers) < MaxWorkers
    /\ workers' = Append(Terminate(workers), [NewWorker EXCEPT !.posted = <<apiKey>>])
    /\ worker' = Len(workers) + 1
    /\ UNCHANGED <<websocketConnection, connState, tasks, timers, FHEModule,
                   allocated, released, wire, clientCalls>>

\* BreadwinnerModule.disconnect(): this.worker?.terminate(); the field stays.
disconnect ==
    /\ workers' = Terminate(workers)
    /\ UNCHANGED <<websocketConnection, connState, tasks, timers, FHEModule,
                   allocated, released, wire, worker, clientCalls>>

\* The message event of worker w: instance.init(e.data[0]).  A terminated
\* worker runs nothing.
WorkerMessage(w) ==
    /\ workers[w].alive
    /\ workers[w].posted # <<>>
    /\ workers' = [workers EXCEPT ![w].apiKey = Head(workers[w].posted),
                                  ![w].posted = Tail(workers[w].posted)]
    /\ UNCHANGED <<websocketConnection, connState, tasks, timers, FHEModule,
                   allocated, released, wire, worker, clientCalls>>

PageNext ==
    \/ \E apiKey \in ApiKeys : BreadwinnerModule_init(apiKey)
    \/ disconnect
    \/ \E w \in DOMAIN workers : WorkerMessage(w)

PageSpec == Init /\ [][PageNext]_vars

(* ------------------------------ claims --------------------------------- *)

Requests == {i \in DOMAIN wire : wire[i].type = "REQUEST_CHUNK"}
Results == {i \in DOMAIN wire : wire[i].type = "SEND_CHUNK_PROCESSING_RESULT"}
Assignments == {i \in DOMAIN wire : wire[i].type = "MESSAGE" /\ wire[i].chunkId # 0}

\* processChunk of task t threw: at the schema parse, in initFHEContext, or
\* in the body.
Failed(t) == Settled(t) /\ tasks[t].err # "none" /\ tasks[t].stage # "send"
Operations(t) == tasks[t].payload.jsonSchema.operations

\* C1: on one connection fed only assignment messages, between two
\* REQUEST_CHUNK sends an assignment arrives, and no REQUEST_CHUNK is sent
\* while a chunk is being processed or its result is still to be submitted.
C1_OneRequestInFlight ==
    (Len(connState) = 1 /\ \A t \in Tasks : tasks[t].stage # "message") =>
        /\ \A i, j \in Requests :
              i < j => \E k \in Assignments : i < k /\ k < j
        /\ \A i \in Requests : wire[i].busy = {}

\* C2: a task whose processChunk failed has armed its reward timer by the
\* time its processPayload has ended, so the next REQUEST_CHUNK follows.
C2_ErrorKeepsLoopAlive ==
    \A t \in Tasks :
        (Failed(t) /\ tasks[t].pc = "rejected") => tasks[t].armed

\* C3: when processChunk of a task has ended with an error after it created
\* handles, then by the time another chunk is about to be processed every
\* value it put into its map is released and its context is torn down.
C3_ReleaseOnEveryExit ==
    \A t, u \in Tasks :
        (/\ Failed(t) /\ tasks[t].pc = "rejected" /\ tasks[t].new # {}
         /\ tasks[u].pc = "awaitInit") =>
            /\ MapValues(tasks[t].map) \subseteq released
            /\ Handle(t, "Context", 0) \in released

\* C4: once processChunk of a task has ended, with a result or an error, as
\* many of the handles it allocated are released as it allocated.
C4_LeakFreedom ==
    \A t \in Tasks :
        Settled(t) =>
            Cardinality(tasks[t].new \cap released) = Cardinality(tasks[t].new)

\* C5: at most one processChunk invocation has started and not finished.
C5_OneChunkAtATime ==
    Cardinality({t \in Tasks : InProcessChunk(t)}) <= 1

\* C6: the body of processChunk of a task works on the context that was
\* initialised for that task, and that context has not been released.
C6_ExclusiveContext ==
    \A t \in Tasks :
        tasks[t].context # NoHandle =>
            tasks[t].context.task = t /\ tasks[t].contextLive

\* C7: no SEND_CHUNK_PROCESSING_RESULT is sent for a chunk whose processing
\* failed.
C7_NoResultForFailedChunk ==
    \A i \in Results : tasks[wire[i].task].err = "none"

\* A chunk failed at its second operation, after the first operation had
\* stored its result, and its work cycle has ended.
C7_Witness ==
    \E t \in Tasks :
        /\ tasks[t].pc = "rejected" /\ tasks[t].stage = "operation"
        /\ NumKey(0) \in DOMAIN tasks[t].map
        /\ \A i \in Results : wire[i].task # t

\* C8: the result submitted for a schema of N >= 1 operations is the
\* serialized value stored under index N-1, and that value is the one
\* operation N-1 produced.
C8_LastOperationResult ==
    \A i \in Results :
        LET t == wire[i].task
            N == Len(Operations(t))
        IN  N >= 1 =>
              /\ NumKey(N - 1) \in DOMAIN tasks[t].map
              /\ wire[i].result = Save(tasks[t].map[NumKey(N - 1)])
              /\ wire[i].result.base64of = Handle(t, "Result", N - 1)

\* A result was submitted for a schema of two operations whose first result
\* differs from the second.
C8_Witness ==
    \E i \in Results :
        LET t == wire[i].task
        IN  /\ Len(Operations(t)) = 2
            /\ NumKey(0) \in DOMAIN tasks[t].map
            /\ tasks[t].map[NumKey(0)].v # wire[i].result.v

\* C9: no operation is dispatched to the calculator with an operand that is
\* absent from the map.
C9_NoDispatchWithAbsentOperand ==
    \A t \in Tasks :
        \A k \in DOMAIN tasks[t].dispatched :
            \A d \in DOMAIN tasks[t].dispatched[k].data :
                tasks[t].dispatched[k].data[d] # Undefined

\* C10: a schema with an operation of an unknown kind fails with
\* UnsupportedOperationError, and no operation after it is evaluated.
C10_UnknownKindRejected ==
    \A t \in Tasks :
        \A i \in DOMAIN Operations(t) :
            (Settled(t) /\ Operations(t)[i].type \notin OperationType) =>
                /\ tasks[t].err = "UnsupportedOperationError"
                /\ \A k \in DOMAIN tasks[t].dispatched :
                      tasks[t].dispatched[k].index < i - 1

\* A MULTIPLY call whose operands are all present and of which at least two
\* are ciphertexts.
CipherProduct(call) ==
    /\ call.type = "MULTIPLY"
    /\ \A d \in DOMAIN call.data : call.data[d] # Undefined
    /\ Cardinality({d \in DOMAIN call.data :
                      call.data[d].kind = "CipherText"}) >= 2

KeyKinds == {"PublicKey", "SecretKey", "GaloisKeys", "RelinKeys"}

\* C12: FHEModule.privateKey and FHEModule.decryptor are never set, no
\* secret key or decryptor is ever created, and the key material the worker
\* creates is the public key, the Galois keys and the relin keys.
C12_NoPrivateKey ==
    /\ FHEModule.privateKey = NoHandle
    /\ FHEModule.decryptor = NoHandle
    /\ \A h \in allocated :
          /\ h.kind \notin {"SecretKey", "Decryptor"}
          /\ h.kind \in KeyKinds => h.kind \in {"PublicKey", "GaloisKeys", "RelinKeys"}

\* Two assignments have been processed to a submitted result, each with its
\* own public key, Galois keys and relin keys.
C12_Witness ==
    /\ Cardinality({wire[i].task : i \in Results}) = 2
    /\ \A t \in Tasks :
          {Handle(t, "PublicKey", 0), Handle(t, "GaloisKeys", 0),
           Handle(t, "RelinKeys", 0)} \subseteq allocated
    /\ FHEModule.publicKey # NoHandle

\* The result of task t was handed to send() and did not reach the wire.
ResultDropped(t) ==
    /\ tasks[t].pc = "done" /\ tasks[t].stage = "returned"
    /\ \A i \in Results : wire[i].task # t

\* C13: a step that creates a WebSocket is a call of init; no close event,
\* timer or continuation creates one.
C13_NoAutomaticReconnect ==
    [][Len(connState') > Len(connState) => init]_vars

\* The only connection was closed by the transport while a chunk was in
\* flight; the chunk has been processed and its timer has fired since, and
\* there is still no second connection.
C13_Witness ==
    /\ Len(connState) = 1 /\ connState[1] = "closed"
    /\ \E t \in Tasks : ResultDropped(t) /\ t \notin timers

\* C14: the worker references the connection created last, and every
\* connection created before it has been closed.
C14_OneConnection ==
    /\ websocketConnection = Len(connState)
    /\ \A c \in DOMAIN connState :
          c # websocketConnection => connState[c] = "closed"

\* init was called while the first connection held a chunk in flight; the
\* second connection has opened.
C14_Witness ==
    /\ Len(connState) = 2 /\ connState[2] = "open"
    /\ \E t \in Tasks : tasks[t].conn = 1 /\ InFlight(t)

\* C15: when the assignment of one chunk arrived before the assignment of
\* another and both results have been submitted, the result of the first
\* was sent before the result of the second.
C15_ResultsInAssignmentOrder ==
    \A a, b \in Assignments : \A i, j \in Results :
        (a < b /\ wire[i].task = wire[a].task /\ wire[j].task = wire[b].task) =>
            i < j

\* C16: every message whose handling has ended armed its reward timer, and
\* a REQUEST_CHUNK that follows a submission on the same connection is sent
\* only after the timer armed at that submission has fired.
C16_OneRequestPerRewardInterval ==
    /\ \A t \in Tasks : tasks[t].pc \in {"done", "rejected"} => tasks[t].armed
    /\ \A i \in Results : \A j \in Requests :
          (i < j /\ wire[j].conn = wire[i].conn) => wire[i].task \notin timers

\* The step is one in which the worker calls send() on the connection it
\* holds: a reward timer fires (requestPayload), or the continuation of a
\* processChunk that returned submits the result.
CallsSend ==
    \/ \E t \in Tasks : t \in timers /\ t \notin timers'
    \/ \E t \in Tasks : /\ tasks[t].pc = "awaitChunk" /\ tasks[t].err = "none"
                        /\ tasks'[t].pc # "awaitChunk"

\* C17: no timer and no continuation calls send() on a connection that has
\* closed or errored.
C17_NoSendAfterClose ==
    [][CallsSend => SendOutcome(websocketConnection) # "dropped"]_vars

\* The operands of a schema that the seeding encodes: <<i, j>> is operand j
\* of operations[i].
LiteralOperands(operations) ==
    {<<i, j>> \in (DOMAIN operations) \X (1..2) :
        /\ j <= Len(operations[i].operands)
        /\ operations[i].operands[j].hasPlaintext
        /\ ~operations[i].operands[j].isRaw}

\* processChunk of task t got past the seeding of its map.
Seeded(t) == Handle(t, "Evaluator", 0) \in tasks[t].new

\* C18: after seeding, every encoded literal is reachable from the map, the
\* map holds as many plaintexts as the schema has literal operands, and each
\* literal operand finds its own value under its key.
C18_LiteralsKeepTheirKeys ==
    \A t \in Tasks :
        Seeded(t) =>
            LET plain == {h \in tasks[t].new : h.kind = "PlainText"}
                lits == LiteralOperands(Operations(t))
            IN  /\ plain \subseteq MapValues(tasks[t].map)
                /\ Cardinality(plain \cap MapValues(tasks[t].map)) = Cardinality(lits)
                /\ \A p \in lits :
                      LET operand == Operations(t)[p[1]].operands[p[2]]
                      IN  Get(tasks[t].map, operand.field).v = operand.plaintextValue

\* Operand j of operations[i] refers to a column of the chunk, to the one
\* literal of its operation, to the result of an earlier operation, or is
\* the raw exponent of an EXPONENTIATION.
OperandInScope(operations, i, j) ==
    LET operand == operations[i].operands[j]
    IN  \/ \E k \in DOMAIN ColumnNames : operand = Col(ColumnNames[k])
        \/ /\ operand.hasPlaintext /\ ~operand.isRaw
           /\ operand.field = LitKey(i - 1)
           /\ \A p \in LiteralOperands(operations) : p[1] = i => p[2] = j
        \/ \E r \in 0..(i - 2) : operand = Res(r)
        \/ operations[i].type = "EXPONENTIATION" /\ j = 2 /\ operand.isRaw

\* The schemas the reference evaluation is defined on.
InScope(operations) ==
    /\ Len(operations) >= 1
    /\ \A i \in DOMAIN operations :
          /\ operations[i].type \in OperationType
          /\ Len(operations[i].operands) = 2
          /\ \A j \in 1..2 : OperandInScope(operations, i, j)

\* The reference evaluation: plain integer arithmetic on the column values
\* of the chunk, the literals as written in the schema and the reference
\* values of earlier operations.
RECURSIVE Reference(_, _)
Reference(operations, i) ==
    LET Plain(operand) ==
            IF operand.hasPlaintext THEN operand.plaintextValue
            ELSE IF operand.field.t = "num"
            THEN Reference(operations, operand.field.n + 1)
            ELSE ColumnPlain[ColumnNames[CHOOSE k \in DOMAIN ColumnNames :
                                            operand = Col(ColumnNames[k])]]
        x == Plain(operations[i].operands[1])
        y == Plain(operations[i].operands[2])
    IN  CASE operations[i].type = "ADD" -> x + y
          [] operations[i].type = "SUBTRACT" -> x - y
          [] operations[i].type = "MULTIPLY" -> x * y
          [] operations[i].type = "EXPONENTIATION" -> Power(x, y)

\* C19: for a schema whose operations refer only to columns, their own
\* literal and earlier results, a submitted result is the reference value of
\* the last operation; the operations were evaluated in ascending order of
\* index, each on the values its operands name, a reference to an earlier
\* operation being the value that operation stored.
C19_ChainedEvaluation ==
    \A i \in Results :
        LET t == wire[i].task
            ops == Operations(t)
            calls == tasks[t].dispatched
        IN  InScope(ops) =>
              /\ wire[i].result.v = Reference(ops, Len(ops))
              /\ Len(calls) = Len(ops)
              /\ \A k \in DOMAIN calls :
                    /\ calls[k].index = k - 1
                    /\ tasks[t].map[NumKey(k - 1)].v = Reference(ops, k)
                    /\ \A d \in DOMAIN calls[k].data :
                          LET operand == ops[k].operands[d]
                          IN  /\ operand.field.t = "num" =>
                                   calls[k].data[d] = tasks[t].map[operand.field]
                              /\ operand.field.t = "num" =>
                                   calls[k].data[d].h =
                                       Handle(t, "Result", operand.field.n)

\* The result submitted for columns a = 5, b = 3 and the schema
\* [MULTIPLY(a, 2), SUBTRACT(result 0, b)] is 7.
C19_Witness ==
    \E i \in Results :
        /\ Operations(wire[i].task) = ScenarioB
        /\ wire[i].result.v = 7

\* The connection held when task t armed its reward timer: the one its
\* result went out on, or else the one its message arrived on.
ArmedUnder(t) ==
    IF \E i \in Results : wire[i].task = t
    THEN wire[CHOOSE i \in Results : wire[i].task = t].conn
    ELSE tasks[t].conn

\* C20: a result is sent on the connection on which its chunk was assigned,
\* and the REQUEST_CHUNK of a reward timer on the connection held when the
\* timer was armed.
C20_SendsOnTriggeringConnection ==
    [][Len(wire') = Len(wire) + 1 =>
          LET e == wire'[Len(wire')]
          IN  /\ e.type = "SEND_CHUNK_PROCESSING_RESULT" =>
                    e.conn = tasks[e.task].conn
              /\ e.type = "REQUEST_CHUNK" =>
                    \A t \in Tasks :
                        (t \in timers /\ t \notin timers') => e.conn = ArmedUnder(t)]_vars

\* C21: the chunk id and the token of a submission are those of one
\* assignment message, and the result is the one computed from that
\* message's chunk and schema: its ciphertext was created by the handling of
\* that message and encrypts the reference value of that message's schema.
C21_ResultPairedWithItsAssignment ==
    \A i \in Results :
        \E a \in Assignments :
            /\ wire[a].chunkId = wire[i].chunkId
            /\ wire[a].token = wire[i].token
            /\ wire[i].result.base64of.task = wire[a].task
            /\ LET ops == Operations(wire[a].task)
               IN  InScope(ops) => wire[i].result.v = Reference(ops, Len(ops))

\* Two assignments with different schemas were in flight together and their
\* results were submitted in the reverse of the order of arrival.
C21_Witness ==
    \E i, j \in Results :
        /\ i < j /\ wire[i].task > wire[j].task
        /\ wire[i].result.v # wire[j].result.v

\* Before call k the module was deallocated and initFHEContext has not been
\* called since.
Deallocated(k) ==
    \E j \in 1..(k - 1) :
        /\ clientCalls[j].method = "deallocate"
        /\ \A i \in (j + 1)..(k - 1) : clientCalls[i].method # "initFHEContext"

\* C22: between deallocate and the next initFHEContext every guarded method
\* fails with 'FHE Module has not been initialized.', and a further
\* deallocate deletes no handle that is deleted already.
C22_UninitialisedAfterDeallocate ==
    \A k \in DOMAIN clientCalls :
        Deallocated(k) =>
            /\ clientCalls[k].method \in GuardedMethods =>
                  clientCalls[k].err = "NotInitialized"
            /\ clientCalls[k].method = "deallocate" => clientCalls[k].twice = {}

\* The workers that have not been terminated.
Alive == {w \in DOMAIN workers : workers[w].alive}

\* The messages worker w has been sent: the one it has taken and those
\* still posted.
Received(w) ==
    (IF workers[w].apiKey # NoKey THEN 1 ELSE 0) + Len(workers[w].posted)

\* C23: after every step at most one worker is alive and it is the one the
\* module holds, every worker has been sent one message, and a step of
\* disconnect leaves no worker alive.
C23_OneWorkerAlive ==
    [][/\ Cardinality(Alive') <= 1
       /\ Alive' \subseteq {worker'}
       /\ \A w \in DOMAIN workers' : Received(w)' = 1
       /\ disconnect => Alive' = {}]_vars

\* init was called three times, the first two workers took different api
\* keys before they were terminated, and after a disconnect none is alive.
C23_Witness ==
    /\ Len(workers) = 3 /\ Alive = {}
    /\ workers[1].apiKey # NoKey /\ workers[2].apiKey # NoKey
    /\ workers[1].apiKey # workers[2].apiKey

====
